---- MODULE Spec2Model ----
(***************************************************************************)
(* Vehicle Network Timing Analyzer: the metrics/event engine               *)
(* (src/src/vnta/metrics.py) and the exit-code gate of the command line    *)
(* (src/cli.py).                                                           *)
(*                                                                         *)
(* Representation.  Every quantity the code holds in milliseconds as a     *)
(* float (iat_ms, abs_dev_ms, expected_period_ms, the thresholds) is held  *)
(* here as the integer 10^6 * x, i.e. in nanoseconds; the inputs are       *)
(* chosen so that float rounding changes no comparison and no digit.       *)
(* A value that can be missing (pandas NaN, Python None, the "n/a" text)   *)
(* is a record [isna, v].  A formatted number is held as the integer its   *)
(* digits spell: "%.3f" as thousandths, "%.4f" as ten-thousandths, "%g" as *)
(* the value rounded to six significant digits.  str() of an integer is    *)
(* held as the integer.  The optional stream_id column is not modelled.    *)
(***************************************************************************)
EXTENDS Integers, Sequences, FiniteSets, TLC

\* ------------------------------------------------------------------ bounds
MaxRecords == 3
MaxSeries == 4
MaxBurstSeq == 6

\* Sequence numbers of a record: a negative one and two consecutive ones
\* (0 is never sent, so that a gap can span one number or two).
SeqVals == {-1, 1, 2}

\* Receive timestamps in ns.  With a period of 6 ms and a spike factor of 2
\* the inter-arrival times they give are 0 (a tie; deviation 6 ms),
\* 7.000001 ms (deviation 1.000001 ms), 13 ms (a spike; deviation 7 ms) and
\* 5.999999 ms (deviation 0.000001 ms).
TsVals == {0, 7000001, 13000000}

\* expected_period_ms (times 10^6)
Periods == {6000000}

\* spike_factor
SpikeFactors == {2}

\* dev_thresholds_ms as the caller gives them (times 10^6): none, the default
\* (1, 5), descending, unsorted with a repeat, and the two thresholds 1 and
\* 1.000002.
ThresholdLists ==
    { <<>>,
      <<1000000, 5000000>>,
      <<5000000, 1000000>>,
      <<1000000, 5000000, 1000000>>,
      <<1000000, 1000002>> }

Records == [ts_rx_ns : TsVals, seq : SeqVals]

RecordSets == UNION {[1..n -> Records] : n \in 0..MaxRecords}

SeqColumns == UNION {[1..n -> -1..MaxBurstSeq] : n \in 0..MaxSeries}

\* ----------------------------------------------------------------- values
NaN == [isna |-> TRUE, v |-> 0]

Num(x) == [isna |-> FALSE, v |-> x]

\* A comparison with NaN is False (pandas/numpy).
Gt(x, y) == ~x.isna /\ x.v > y

Abs(x) == IF x < 0 THEN -x ELSE x

\* a / b rounded to the nearest integer, ties to even (a >= 0, b > 0); no
\* input of the model produces a tie.
RoundDiv(a, b) ==
    LET q == a \div b
        r == a % b
    IN IF 2 * r > b \/ (2 * r = b /\ q % 2 = 1) THEN q + 1 ELSE q

RECURSIVE Digits(_)
Digits(n) == IF n < 10 THEN 1 ELSE 1 + Digits(n \div 10)

RECURSIVE Pow10(_)
Pow10(k) == IF k = 0 THEN 1 ELSE 10 * Pow10(k - 1)

\* f"{th:g}": six significant digits, trailing zeros dropped.  The text is
\* determined by the rounded value, which stands for it.
FmtG(th) ==
    IF Digits(th) <= 6 THEN th
    ELSE LET scale == Pow10(Digits(th) - 6) IN RoundDiv(th, scale) * scale

\* f"{x:.3f}" of x = num / den (ns): thousandths of a millisecond.
Fmt3(num, den) == RoundDiv(num, den * 1000)

\* f"{loss_rate:.4f}" of missing / expected_total: ten-thousandths.
Fmt4(num, den) == RoundDiv(num * 10000, den)

RECURSIVE SumSeq(_)
SumSeq(s) == IF Len(s) = 0 THEN 0 ELSE Head(s) + SumSeq(Tail(s))

MinOf(S) == CHOOSE x \in S : \A y \in S : x <= y

MaxOf(S) == CHOOSE x \in S : \A y \in S : x >= y

Range(s) == {s[i] : i \in 1..Len(s)}

\* The first position holding x.
IndexOf(s, x) == MinOf({i \in 1..Len(s) : s[i] = x})

RemoveAt(s, k) == [i \in 1..(Len(s) - 1) |-> IF i < k THEN s[i] ELSE s[i + 1]]

RECURSIVE SortedAsc(_)
SortedAsc(s) ==
    IF Len(s) = 0 THEN <<>>
    ELSE LET m == MinOf(Range(s)) IN <<m>> \o SortedAsc(RemoveAt(s, IndexOf(s, m)))

\* Variant: the thresholds left in the caller's order.
ThresholdsAsGiven(s) == s

\* sorted(dev_thresholds_ms, reverse=True)
RECURSIVE SortedReverse(_)
SortedReverse(s) ==
    IF Len(s) = 0 THEN <<>>
    ELSE LET m == MaxOf(Range(s)) IN <<m>> \o SortedReverse(RemoveAt(s, IndexOf(s, m)))

\* ---------------------------------------------------------------- columns
TsCol(rows) == [i \in 1..Len(rows) |-> rows[i].ts_rx_ns]

SeqCol(rows) == [i \in 1..Len(rows) |-> rows[i].seq]

\* Series.diff(): NaN at the first position.
Diff(col) == [i \in 1..Len(col) |-> IF i = 1 THEN NaN ELSE Num(col[i] - col[i - 1])]

\* Series.shift(1): NaN at the first position.
Shift(col) == [i \in 1..Len(col) |-> IF i = 1 THEN NaN ELSE Num(col[i - 1])]

\* Series.dropna(), as plain values.
RECURSIVE Dropna(_)
Dropna(col) ==
    IF Len(col) = 0 THEN <<>>
    ELSE IF Head(col).isna THEN Dropna(Tail(col))
    ELSE <<Head(col).v>> \o Dropna(Tail(col))

\* Series.min() / Series.max(): NaN on an empty series.
SeriesMin(col) == IF Len(col) = 0 THEN NaN ELSE Num(MinOf(Range(col)))

SeriesMax(col) == IF Len(col) = 0 THEN NaN ELSE Num(MaxOf(Range(col)))

\* ------------------------------------------------------------------- sort
PermutationsOf(n) == Permutations(1..n)

\* argsort of the timestamp column with the default kind ("quicksort", not
\* stable): any index order that leaves the timestamps non-decreasing.
ArgsortOutcomes(ts) ==
    {p \in PermutationsOf(Len(ts)) :
        \A i \in 1..(Len(ts) - 1) : ts[p[i]] <= ts[p[i + 1]]}

\* df.sort_values("ts_rx_ns").reset_index(drop=True) under index order p.
SortValues(rows, p) == [i \in 1..Len(rows) |-> rows[p[i]]]

\* ------------------------------------------------ estimate_missing_bursts
\* Variant: a gap of 1 taken for a burst.
GapAtLeastOne(g) == g >= 1

\* if g > 1
IsBurstGap(g) == g > 1

BurstRow(seq, prev, gap, i) ==
    [index |-> i - 1,
     prev_seq |-> prev[i].v,
     curr_seq |-> seq[i],
     missing_count |-> gap[i].v - 1]

\* for idx, g in gap.items(): position i is idx + 1.
RECURSIVE BurstLoop(_, _, _, _)
BurstLoop(seq, prev, gap, i) ==
    IF i > Len(seq) THEN <<>>
    ELSE IF gap[i].isna THEN BurstLoop(seq, prev, gap, i + 1)
    ELSE IF IsBurstGap(gap[i].v)
         THEN <<BurstRow(seq, prev, gap, i)>> \o BurstLoop(seq, prev, gap, i + 1)
         ELSE BurstLoop(seq, prev, gap, i + 1)

estimate_missing_bursts(seq_col) ==
    LET prev == Shift(seq_col)
        gap == [i \in 1..Len(seq_col) |->
                  IF prev[i].isna THEN NaN ELSE Num(seq_col[i] - prev[i].v)]
    IN BurstLoop(seq_col, prev, gap, 1)

\* -------------------------------------------------------- compute_metrics
\* work["iat_ms"], work["abs_dev_ms"]
Derive(work0, period) ==
    LET iat == Diff(TsCol(work0))
    IN [i \in 1..Len(work0) |->
          [ts_rx_ns |-> work0[i].ts_rx_ns,
           seq |-> work0[i].seq,
           iat_ms |-> iat[i],
           abs_dev_ms |-> IF iat[i].isna THEN NaN
                          ELSE Num(Abs(iat[i].v - period))]]

IatCol(work) == [i \in 1..Len(work) |-> work[i].iat_ms]

AbsDevCol(work) == [i \in 1..Len(work) |-> work[i].abs_dev_ms]

\* float(x.mean()) formatted "%.3f", "n/a" on an empty series.
MeanFmt(vals) == IF Len(vals) = 0 THEN NaN ELSE Num(Fmt3(SumSeq(vals), Len(vals)))

MinFmt(vals) == IF Len(vals) = 0 THEN NaN ELSE Num(Fmt3(MinOf(Range(vals)), 1))

MaxFmt(vals) == IF Len(vals) = 0 THEN NaN ELSE Num(Fmt3(MaxOf(Range(vals)), 1))

\* iat.std(ddof=0): the digits are not computed (the squares are beyond
\* 32-bit integers); the value is held as the sorted values that determine
\* it.
StdFmt(vals) == IF Len(vals) = 0 THEN NaN ELSE Num(SortedAsc(vals))

\* np.percentile(abs_dev, 95), linear interpolation between order statistics.
P95Fmt(vals) ==
    IF Len(vals) = 0 THEN NaN
    ELSE LET d == SortedAsc(vals)
             h == 19 * (Len(d) - 1)
             k == (h \div 20) + 1
             f == h % 20
         IN IF f = 0 THEN Num(Fmt3(d[k], 1))
            ELSE Num(Fmt3(20 * d[k] + f * (d[k + 1] - d[k]), 20))

\* (seq_diff == 0).sum(), (seq_diff < 0).sum()
Duplicates(seq) == Cardinality({i \in 2..Len(seq) : seq[i] - seq[i - 1] = 0})

OutOfOrder(seq) == Cardinality({i \in 2..Len(seq) : seq[i] - seq[i - 1] < 0})

\* Variant: the range counted without its last value.
ExpectedTotalOffByOne(seq_min, seq_max) ==
    IF seq_max >= seq_min THEN seq_max - seq_min ELSE 0

ExpectedTotal(seq_min, seq_max) ==
    IF seq_max >= seq_min THEN seq_max - seq_min + 1 ELSE 0

\* Variant: the rows counted, repeats included.
ObservedCount(seq) == Len(seq)

\* seq.nunique()
ObservedUnique(seq) == Cardinality(Range(seq))

Missing(expected_total, observed_unique) ==
    IF expected_total - observed_unique > 0 THEN expected_total - observed_unique ELSE 0

\* seq_min .. loss_rate of compute_metrics, with the text of loss_rate_est
\* ("n/a" unless expected_total > 0).  min and max of an empty column are NaN.
LossEstimate(seq) ==
    LET expected_total == ExpectedTotal(SeriesMin(seq).v, SeriesMax(seq).v)
        missing == Missing(expected_total, ObservedUnique(seq))
    IN [expected_total |-> expected_total,
        missing |-> missing,
        loss_rate_est |-> IF expected_total > 0
                          THEN Num(Fmt4(missing, expected_total)) ELSE NaN]

\* Variant: the comparison turned round.
VioCountBelow(work, th) ==
    Cardinality({i \in 1..Len(work) : ~work[i].abs_dev_ms.isna /\ work[i].abs_dev_ms.v < th})

\* int((work["abs_dev_ms"] > th).sum())
VioCount(work, th) ==
    Cardinality({i \in 1..Len(work) : Gt(work[i].abs_dev_ms, th)})

\* vio_counts: one entry per key text; a later threshold with the same key
\* text overwrites the earlier one.
VioCounts(work, ths) ==
    [k \in {FmtG(ths[j]) : j \in 1..Len(ths)} |->
        LET last == MaxOf({j \in 1..Len(ths) : FmtG(ths[j]) = k})
        IN VioCount(work, ths[last])]

SpikeIatMs(period, factor) == period * factor

SpikeCount(work, spike_iat_ms) ==
    Cardinality({i \in 1..Len(work) : Gt(work[i].iat_ms, spike_iat_ms)})

NoType == [kind |-> "", g |-> 0]

SpikeType == [kind |-> "iat_spike", g |-> 0]

\* f"abs_dev_gt_{th:g}ms"
AbsDevType(th) == [kind |-> "abs_dev_gt", g |-> FmtG(th)]

BurstType == [kind |-> "missing_burst", g |-> 0]

\* work.dropna(subset=["iat_ms"]) with event_type = ""; row is the index label
\* the row keeps from work.
RECURSIVE EventRows(_, _)
EventRows(work, i) ==
    IF i > Len(work) THEN <<>>
    ELSE IF work[i].iat_ms.isna THEN EventRows(work, i + 1)
    ELSE << [row |-> i - 1,
             ts_rx_ns |-> work[i].ts_rx_ns,
             seq |-> work[i].seq,
             iat_ms |-> work[i].iat_ms,
             abs_dev_ms |-> work[i].abs_dev_ms,
             event_type |-> NoType] >> \o EventRows(work, i + 1)

\* events.loc[events["iat_ms"] > spike_iat_ms, "event_type"] = "iat_spike"
MarkSpikes(ev, spike_iat_ms) ==
    [i \in 1..Len(ev) |->
        IF Gt(ev[i].iat_ms, spike_iat_ms)
        THEN [ev[i] EXCEPT !.event_type = SpikeType] ELSE ev[i]]

\* Variant: the threshold label written over whatever label the row has.
LabelStepUnmasked(ev, th) ==
    [i \in 1..Len(ev) |->
        IF Gt(ev[i].abs_dev_ms, th)
        THEN [ev[i] EXCEPT !.event_type = AbsDevType(th)] ELSE ev[i]]

\* mask = (events["abs_dev_ms"] > th) & (events["event_type"] == "")
LabelStep(ev, th) ==
    [i \in 1..Len(ev) |->
        IF Gt(ev[i].abs_dev_ms, th) /\ ev[i].event_type = NoType
        THEN [ev[i] EXCEPT !.event_type = AbsDevType(th)] ELSE ev[i]]

RECURSIVE LabelLoop(_, _, _)
LabelLoop(ev, ths, k) ==
    IF k > Len(ths) THEN ev ELSE LabelLoop(LabelStep(ev, ths[k]), ths, k + 1)

\* events[events["event_type"] != ""]
RECURSIVE Labelled(_)
Labelled(ev) ==
    IF Len(ev) = 0 THEN <<>>
    ELSE IF Head(ev).event_type = NoType THEN Labelled(Tail(ev))
    ELSE <<Head(ev)>> \o Labelled(Tail(ev))

TimingEvents(work, ths, spike_iat_ms) ==
    Labelled(LabelLoop(MarkSpikes(EventRows(work, 1), spike_iat_ms),
                       SortedReverse(ths), 1))

\* bursts_events: the burst rows with the timestamp of the row they sit at.
BurstEvents(work, b) ==
    [j \in 1..Len(b) |->
        [ts_rx_ns |-> work[b[j].index + 1].ts_rx_ns,
         prev_seq |-> b[j].prev_seq,
         curr_seq |-> b[j].curr_seq,
         missing_count |-> b[j].missing_count,
         event_type |-> BurstType]]

BurstMax(b) == IF Len(b) = 0 THEN 0 ELSE MaxOf({b[j].missing_count : j \in 1..Len(b)})

Raised(e) == [exc |-> e, summary |-> <<>>, work |-> <<>>, events |-> <<>>]

\* compute_metrics, the index order of the sort being order.
compute_metrics(rows, period, ths, factor, order) ==
    LET work == Derive(SortValues(rows, order), period)
        iat == Dropna(IatCol(work))
        abs_dev == Dropna(AbsDevCol(work))
        seq == SeqCol(work)
        smin == SeriesMin(seq)
        smax == SeriesMax(seq)
        loss == LossEstimate(seq)
        expected_total == loss.expected_total
        missing == loss.missing
        spike_iat_ms == SpikeIatMs(period, factor)
        b == estimate_missing_bursts(seq)
        summary ==
            [packets_observed |-> Len(work),
             seq_min |-> smin.v,
             seq_max |-> smax.v,
             missing_packets_est |-> missing,
             loss_rate_est |-> loss.loss_rate_est,
             iat_ms_mean |-> MeanFmt(iat),
             iat_ms_min |-> MinFmt(iat),
             iat_ms_max |-> MaxFmt(iat),
             jitter_ms_std |-> StdFmt(iat),
             abs_dev_ms_mean |-> MeanFmt(abs_dev),
             abs_dev_ms_p95 |-> P95Fmt(abs_dev),
             duplicates |-> Duplicates(seq),
             out_of_order |-> OutOfOrder(seq),
             iat_spike_threshold_ms |-> Fmt3(spike_iat_ms, 1),
             iat_spike_count |-> SpikeCount(work, spike_iat_ms),
             violations |-> VioCounts(work, ths),
             missing_bursts_count |-> Len(b),
             missing_burst_max |-> BurstMax(b)]
    IN \* int(seq.min()), int(seq.max()): int() of NaN raises ValueError.
       IF smin.isna \/ smax.isna THEN Raised("ValueError")
       ELSE [exc |-> "",
             summary |-> summary,
             work |-> work,
             events |-> TimingEvents(work, ths, spike_iat_ms) \o BurstEvents(work, b)]

ComputeMetricsOutcomes(rows, period, ths, factor) ==
    {compute_metrics(rows, period, ths, factor, p) : p \in ArgsortOutcomes(TsCol(rows))}

\* ------------------------------------------------------------------ state
VARIABLES
    pc,                   \* "start", then "returned", "raised" or "exited"
    df,                   \* the records as the caller gives them
    expected_period_ms,
    dev_thresholds_ms,    \* in the caller's order
    spike_factor,
    ret,                  \* what compute_metrics returned (or raised)
    seq_series,           \* the argument of estimate_missing_bursts
    bursts,               \* what estimate_missing_bursts returned
    fail_on_abs_dev_gt,   \* --fail-on-abs-dev-gt (NaN: not given)
    exit_code             \* the exit status of the command line

vars == <<pc, df, expected_period_ms, dev_thresholds_ms, spike_factor, ret,
          seq_series, bursts, fail_on_abs_dev_gt, exit_code>>

NoReturn == Raised("")

Init ==
    /\ pc = "start"
    /\ df \in RecordSets
    /\ expected_period_ms \in Periods
    /\ dev_thresholds_ms \in ThresholdLists
    /\ spike_factor \in SpikeFactors
    /\ ret = NoReturn
    /\ seq_series = <<>>
    /\ bursts = <<>>
    /\ fail_on_abs_dev_gt = NaN
    /\ exit_code = -1

\* One call of compute_metrics(df, expected_period_ms, dev_thresholds_ms,
\* spike_factor).
ComputeMetrics ==
    /\ pc = "start"
    /\ \E r \in ComputeMetricsOutcomes(df, expected_period_ms, dev_thresholds_ms,
                                       spike_factor) :
          /\ ret' = r
          /\ pc' = IF r.exc = "" THEN "returned" ELSE "raised"
    /\ UNCHANGED <<df, expected_period_ms, dev_thresholds_ms, spike_factor,
                   seq_series, bursts, fail_on_abs_dev_gt, exit_code>>

Next == ComputeMetrics

Spec == Init /\ [][Next]_vars

\* ----------------------------------------------- estimate_missing_bursts
InitBursts ==
    /\ pc = "start"
    /\ seq_series \in SeqColumns
    /\ df = <<>>
    /\ expected_period_ms \in Periods
    /\ dev_thresholds_ms = <<>>
    /\ spike_factor \in SpikeFactors
    /\ ret = NoReturn
    /\ bursts = <<>>
    /\ fail_on_abs_dev_gt = NaN
    /\ exit_code = -1

\* One call of estimate_missing_bursts(seq_series); astype("int64") and
\* reset_index(drop=True) leave a column of integers as it is.
EstimateMissingBursts ==
    /\ pc = "start"
    /\ bursts' = estimate_missing_bursts(seq_series)
    /\ pc' = "returned"
    /\ UNCHANGED <<df, expected_period_ms, dev_thresholds_ms, spike_factor, ret,
                   seq_series, fail_on_abs_dev_gt, exit_code>>

NextBursts == EstimateMissingBursts

SpecBursts == InitBursts /\ [][NextBursts]_vars

\* ------------------------------------------------------------ command line
\* --fail-on-abs-dev-gt: not given, a configured threshold, one that is not.
FailOnVals == {NaN, Num(1000000), Num(3000000)}

InitCli ==
    /\ pc = "start"
    /\ df \in RecordSets
    /\ expected_period_ms \in Periods
    /\ dev_thresholds_ms \in ThresholdLists
    /\ spike_factor \in SpikeFactors
    /\ fail_on_abs_dev_gt \in FailOnVals
    /\ ret = NoReturn
    /\ seq_series = <<>>
    /\ bursts = <<>>
    /\ exit_code = -1

\* metrics.get(key, "0") for key = f"violations_abs_dev_gt_{X:g}ms"
MetricsGet(summary, x) ==
    IF FmtG(x) \in DOMAIN summary.violations THEN summary.violations[FmtG(x)] ELSE 0

\* main(), from the loaded records on: compute_metrics, then the fail-on gate.
\* An exception of compute_metrics is not caught: the interpreter ends with
\* status 1.
Main ==
    /\ pc = "start"
    /\ \E r \in ComputeMetricsOutcomes(df, expected_period_ms, dev_thresholds_ms,
                                       spike_factor) :
          /\ ret' = r
          /\ exit_code' =
                IF r.exc # "" THEN 1
                ELSE IF ~fail_on_abs_dev_gt.isna
                        /\ MetricsGet(r.summary, fail_on_abs_dev_gt.v) > 0
                     THEN 2 ELSE 0
    /\ pc' = "exited"
    /\ UNCHANGED <<df, expected_period_ms, dev_thresholds_ms, spike_factor,
                   seq_series, bursts, fail_on_abs_dev_gt>>

NextCli == Main

SpecCli == InitCli /\ [][NextCli]_vars

\* ------------------------------------------------------------------ claims
IsTiming(e) == e.event_type.kind \in {"iat_spike", "abs_dev_gt"}

\* The timing events of the record at position i of the working set.
TimingEventsOf(ev, i) == {j \in 1..Len(ev) : IsTiming(ev[j]) /\ ev[j].row = i - 1}

EventsOfType(ev, t) == {j \in 1..Len(ev) : ev[j].event_type = t}

\* The configured thresholds the record at position i exceeds.
Exceeded(work, i, ths) == {t \in Range(ths) : Gt(work[i].abs_dev_ms, t)}

IsSpike(work, i) == Gt(work[i].iat_ms, expected_period_ms * spike_factor)

\* C1: every record of the sorted working set yields at most one timing event
\* (iat_spike or one abs_dev_gt label); a record whose iat_ms exceeds
\* expected_period_ms * spike_factor is labelled iat_spike, whatever
\* thresholds its abs_dev_ms exceeds; the first record yields none.
C1_OneTimingEventPerRecord ==
    pc = "returned" =>
        /\ \A i \in 1..Len(ret.work) : Cardinality(TimingEventsOf(ret.events, i)) <= 1
        /\ \A i \in 1..Len(ret.work) :
              IsSpike(ret.work, i) =>
                 \E j \in TimingEventsOf(ret.events, i) :
                    ret.events[j].event_type.kind = "iat_spike"
        /\ TimingEventsOf(ret.events, 1) = {}

\* A spike whose deviation also exceeds a configured threshold, labelled
\* iat_spike.
C1_Witness ==
    /\ pc = "returned"
    /\ \E i \in 1..Len(ret.work) :
          /\ IsSpike(ret.work, i)
          /\ Exceeded(ret.work, i, dev_thresholds_ms) # {}
          /\ \E j \in TimingEventsOf(ret.events, i) :
                ret.events[j].event_type.kind = "iat_spike"

\* C2: for every record with a defined iat_ms that is not a spike, in whatever
\* order the thresholds are given, the label names the largest configured
\* threshold its abs_dev_ms exceeds; a record exceeding none has no event.
C2_StrongestThresholdLabel ==
    pc = "returned" =>
        \A i \in 2..Len(ret.work) :
           ~IsSpike(ret.work, i) =>
              LET over == Exceeded(ret.work, i, dev_thresholds_ms)
                  mine == TimingEventsOf(ret.events, i)
              IN IF over = {} THEN mine = {}
                 ELSE /\ mine # {}
                      /\ \A j \in mine :
                            ret.events[j].event_type =
                               [kind |-> "abs_dev_gt", g |-> FmtG(MaxOf(over))]

\* Thresholds given smallest first, and a record that is no spike and exceeds
\* two of them, labelled with the larger.
C2_Witness ==
    /\ pc = "returned"
    /\ Len(dev_thresholds_ms) >= 2
    /\ dev_thresholds_ms[1] < dev_thresholds_ms[2]
    /\ \E i \in 2..Len(ret.work) :
          /\ ~IsSpike(ret.work, i)
          /\ {dev_thresholds_ms[1], dev_thresholds_ms[2]}
                \subseteq Exceeded(ret.work, i, dev_thresholds_ms)
          /\ \E j \in TimingEventsOf(ret.events, i) :
                ret.events[j].event_type.g = FmtG(dev_thresholds_ms[2])

AllCountsZero(s) ==
    /\ s.duplicates = 0
    /\ s.out_of_order = 0
    /\ s.missing_packets_est = 0
    /\ s.iat_spike_count = 0
    /\ \A k \in DOMAIN s.violations : s.violations[k] = 0
    /\ s.missing_bursts_count = 0
    /\ s.missing_burst_max = 0

\* C3: for 0 or 1 records compute_metrics raises nothing and returns a summary:
\* with 0 records packets_observed 0, loss_rate_est "n/a", all counts 0; with
\* 1 record packets_observed 1, every iat/abs_dev statistic "n/a", all counts 0.
C3_DegenerateInput ==
    (pc # "start" /\ Len(df) <= 1) =>
        /\ pc = "returned"
        /\ ret.summary.packets_observed = Len(df)
        /\ AllCountsZero(ret.summary)
        /\ Len(df) = 0 => ret.summary.loss_rate_est.isna
        /\ Len(df) = 1 =>
              /\ ret.summary.iat_ms_mean.isna
              /\ ret.summary.iat_ms_min.isna
              /\ ret.summary.iat_ms_max.isna
              /\ ret.summary.jitter_ms_std.isna
              /\ ret.summary.abs_dev_ms_mean.isna
              /\ ret.summary.abs_dev_ms_p95.isna

\* C4: for any two inputs that are permutations of the same records (records
\* sharing a timestamp included) compute_metrics returns identical results.
C4_PermutationInvariant ==
    pc = "returned" =>
        \A q \in PermutationsOf(Len(df)) :
           \A r \in ComputeMetricsOutcomes(SortValues(df, q), expected_period_ms,
                                           dev_thresholds_ms, spike_factor) :
              r = ret

\* The positions of the sequence column whose gap to the position before
\* exceeds 1.
GapPositions(s) == {i \in 2..Len(s) : s[i] - s[i - 1] > 1}

C6_LossRateBounds ==
    pc = "returned" =>
        LET s == ret.summary
            expected_total == s.seq_max - s.seq_min + 1
        IN /\ expected_total >= 1
           /\ 0 <= s.missing_packets_est
           /\ s.missing_packets_est <= expected_total - 1
           /\ ~s.loss_rate_est.isna
           /\ s.loss_rate_est.v = Fmt4(s.missing_packets_est, expected_total)
           /\ 0 <= s.loss_rate_est.v
           /\ s.loss_rate_est.v < 10000

\* A duplicate, a reordering, a negative sequence number and a loss at once.
C6_Witness ==
    /\ pc = "returned"
    /\ ret.summary.duplicates > 0
    /\ ret.summary.out_of_order > 0
    /\ ret.summary.seq_min < 0
    /\ ret.summary.missing_packets_est > 0
    /\ ret.summary.loss_rate_est.v > 0

\* The sequence numbers of min..max that are not observed.
Absent(rows) ==
    LET S == Range(SeqCol(rows))
    IN {v \in MinOf(S)..MaxOf(S) : v \notin S}

SwapAt(rows, k) ==
    [i \in 1..Len(rows) |->
        IF i = k THEN rows[k + 1] ELSE IF i = k + 1 THEN rows[k] ELSE rows[i]]

\* The record sets one step away that have the same set of sequence values:
\* two neighbouring records given in the other order, and one of the records
\* received once more at any time.
SameValuesNearby(rows) ==
    {SwapAt(rows, k) : k \in 1..(Len(rows) - 1)}
    \cup (IF Len(rows) < MaxRecords
          THEN {Append(rows, [ts_rx_ns |-> t, seq |-> rows[i].seq]) :
                   i \in 1..Len(rows), t \in TsVals}
          ELSE {})

\* C7: missing_packets_est and loss_rate_est depend only on the set of distinct
\* sequence values: they are the number of values of min..max not observed and
\* that number over the size of min..max, and they do not change when the
\* records come in another order or a record is repeated.
C7_LossDependsOnValueSet ==
    pc = "returned" =>
        /\ ret.summary.missing_packets_est = Cardinality(Absent(df))
        /\ ret.summary.loss_rate_est =
              Num(RoundDiv(10000 * Cardinality(Absent(df)),
                           MaxOf(Range(SeqCol(df))) - MinOf(Range(SeqCol(df))) + 1))
        /\ \A d \in SameValuesNearby(df) :
              \A p \in ArgsortOutcomes(TsCol(d)) :
                 LET l == LossEstimate(SeqCol(SortValues(d, p)))
                 IN /\ l.missing = ret.summary.missing_packets_est
                    /\ l.loss_rate_est = ret.summary.loss_rate_est

\* A record set with a duplicate and a reordering that still has a loss.
C7_Witness ==
    /\ pc = "returned"
    /\ ret.summary.duplicates > 0
    /\ ret.summary.out_of_order > 0
    /\ ret.summary.missing_packets_est = 2
    /\ Cardinality(Range(SeqCol(df))) < Len(df)

DefinedAbsDevAbove(work, t) ==
    {i \in 1..Len(work) : ~work[i].abs_dev_ms.isna /\ work[i].abs_dev_ms.v > t}

\* C8: for configured thresholds t1 < t2 the summary has
\* violations_abs_dev_gt_{t1}ms >= violations_abs_dev_gt_{t2}ms, and each count
\* is a count over all records with a defined abs_dev_ms, spikes included.
C8_ThresholdMonotonicity ==
    pc = "returned" =>
        LET vio == ret.summary.violations
        IN /\ \A t1, t2 \in Range(dev_thresholds_ms) :
                 t1 < t2 => vio[FmtG(t1)] >= vio[FmtG(t2)]
           /\ \A k \in DOMAIN vio :
                 \E t \in Range(dev_thresholds_ms) :
                    /\ FmtG(t) = k
                    /\ vio[k] = Cardinality(DefinedAbsDevAbove(ret.work, t))

\* A spike that counts toward both of two thresholds.
C8_Witness ==
    /\ pc = "returned"
    /\ dev_thresholds_ms = <<1000000, 5000000>>
    /\ \E i \in 1..Len(ret.work) :
          /\ IsSpike(ret.work, i)
          /\ Exceeded(ret.work, i, dev_thresholds_ms) = {1000000, 5000000}
          /\ ret.summary.violations[1000000] = 1
          /\ ret.summary.violations[5000000] = 1

\* The records whose defined abs_dev_ms exceeds x (the order among equal
\* timestamps does not change the inter-arrival times).
RecordsAbove(rows, period, x) ==
    LET p == CHOOSE o \in ArgsortOutcomes(TsCol(rows)) : TRUE
    IN DefinedAbsDevAbove(Derive(SortValues(rows, p), period), x)

\* C9: with --fail-on-abs-dev-gt X, main returns 2 if some record's defined
\* abs_dev_ms exceeds X and 0 otherwise, X configured as a threshold or not
\* (stated of the runs in which compute_metrics returns; on an empty record
\* set it raises and the status is 1).
C9_FailOnGate ==
    (pc = "exited" /\ ~fail_on_abs_dev_gt.isna /\ ret.exc = "") =>
        exit_code =
           IF RecordsAbove(df, expected_period_ms, fail_on_abs_dev_gt.v) # {}
           THEN 2 ELSE 0

\* C10: summary and events of one call agree: iat_spike_count is the number of
\* iat_spike events, missing_bursts_count the number of missing_burst events,
\* missing_burst_max their largest missing_count (0 if none), and for each
\* configured threshold t the events labelled abs_dev_gt_{t}ms are at most
\* violations_abs_dev_gt_{t}ms.
C10_SummaryAgreesWithEvents ==
    pc = "returned" =>
        LET ev == ret.events
            s == ret.summary
            be == EventsOfType(ev, [kind |-> "missing_burst", g |-> 0])
        IN /\ s.iat_spike_count =
                 Cardinality(EventsOfType(ev, [kind |-> "iat_spike", g |-> 0]))
           /\ s.missing_bursts_count = Cardinality(be)
           /\ s.missing_burst_max =
                 (IF be = {} THEN 0 ELSE MaxOf({ev[j].missing_count : j \in be}))
           /\ \A t \in Range(dev_thresholds_ms) :
                 Cardinality(EventsOfType(ev, [kind |-> "abs_dev_gt", g |-> FmtG(t)]))
                    <= s.violations[FmtG(t)]

====
